---- MODULE Spec2Model ----
(***************************************************************************)
(* A model of src/script.js: the DOMContentLoaded handler of the portfolio *)
(* page and the event, timer and animation-frame callbacks it wires.       *)
(* Every handler runs to completion before the next one starts (one UI     *)
(* thread), so each handler is one action.                                 *)
(***************************************************************************)
EXTENDS Integers, Sequences, FiniteSets, TLC

VARIABLES
  \* ---- the document and the host, fixed when the page is loaded
  sections,             \* ids of the <section> elements (script.js:26)
  navLinks,             \* hrefs of the ".sidebar-nav a" links, in document order (script.js:27)
  hamburger,            \* TRUE iff document.querySelector(".hamburger") is not null
  sidebar,              \* TRUE iff document.querySelector(".sidebar") is not null
  overlay,              \* TRUE iff document.querySelector(".overlay") is not null
  canvas,               \* TRUE iff document.getElementById("bg-canvas") is not null
  typewriterElement,    \* TRUE iff document.getElementById("typing-effect") is not null
  lazyImages,           \* the img[data-src] elements found at initialization
  hasIntersectionObserver, \* "IntersectionObserver" in window
  hasTHREE,             \* typeof THREE !== "undefined"
  prefersReducedMotion, \* matchMedia("(prefers-reduced-motion: reduce)").matches
  throwAt,              \* index in SetupSteps of the renderer setup step that throws, 0 for none
  hasPushState,         \* history.pushState exists (script.js:256)
  \* ---- the DOMContentLoaded handler
  loaded,               \* "pending", "done", or "threw" (an exception left the handler)
  listeners,            \* the listeners and observers the handler has registered
  uncaught,             \* names of the exceptions that left a handler or callback
  \* ---- sidebar controller
  hamburgerActive,      \* hamburger.classList has "active"
  sidebarShow,          \* sidebar.classList has "show"
  overlayShow,          \* overlay.classList has "show"
  bodySidebarOpen,      \* body.classList has "sidebar-open"
  ariaExpanded,         \* the hamburger's aria-expanded attribute: "none", "true", "false"
  focus,                \* "hamburger" once hamburger.focus() ran, else "elsewhere"
  toggleLog,            \* the last calls of toggleSidebar: argument, state before and after
  event,                \* the last click or key delivered to the sidebar's controls or the document
  \* ---- scroll-spy
  navActive,            \* indices of the navLinks whose classList has "active"
  spyBatch,             \* the entries of the last sectionObserver callback
  \* ---- smooth-scroll router
  clickLog,             \* the last anchor click: its href and what the handler did, in order
  \* ---- typing animator
  phrases, phraseIndex, charIndex, isDeleting,
  textContent,          \* typewriterElement.textContent
  typingTimer,          \* delay of the pending setTimeout(animateTyping, ..), 0 when none
  timerRuns,            \* how many times animateTyping has run (saturates at MaxRuns)
  written,              \* the strings the ticks left in the element, for the current phrase
  \* ---- particle-field renderer
  hidden,               \* document.hidden
  canvasDisplay,        \* canvas.style.display: "" or "none"
  animationId,          \* the variable animationId, 0 while undefined
  pendingFrames,        \* ids of the animation-frame requests that are pending
  nextFrameId,          \* the id the next requestAnimationFrame returns
  renders,              \* number of completed renderer.render calls
  \* ---- lazy image loader
  imgSrc,               \* images whose src has been assigned
  imgDataSrc,           \* images that still carry the data-src attribute
  observedImages,       \* images observed by imageObserver
  srcWrites,            \* per image, the values assigned to img.src, in order
  imageBatch,           \* the entries the imageObserver callback was last called with
  \* ---- debounce
  now,                  \* the clock, in units of time
  wait,                 \* the wait given to debounce(func, wait)
  timeout,              \* the closure variable timeout: a timer id, 0 while undefined
  timers,               \* the host's pending timers: [id, due, args], args those `later` captured
  nextTimerId,          \* the id the next setTimeout returns
  fired,                \* the invocations of func so far: <<time, args>>
  callLog               \* the calls of the wrapper so far: <<time, args>>

cfgVars == <<sections, navLinks, hamburger, sidebar, overlay, canvas, typewriterElement,
             lazyImages, hasIntersectionObserver, hasTHREE, prefersReducedMotion, throwAt,
             hasPushState>>
loadVars == <<loaded, listeners>>
sidebarVars == <<hamburgerActive, sidebarShow, overlayShow, bodySidebarOpen, ariaExpanded>>
typingVars == <<phrases, phraseIndex, charIndex, isDeleting, textContent, typingTimer,
                timerRuns, written>>
rendererVars == <<canvasDisplay, animationId, pendingFrames, nextFrameId, renders>>
imageVars == <<imgSrc, imgDataSrc, observedImages, srcWrites, imageBatch>>
spyVars == <<navActive, spyBatch>>
debounceVars == <<now, wait, timeout, timers, nextTimerId, fired, callLog>>
vars == <<cfgVars, loadVars, uncaught, sidebarVars, focus, toggleLog, event, spyVars,
          clickLog, typingVars, hidden, rendererVars, imageVars, debounceVars>>

(***************************************************************************)
(* Bounds of the model.                                                    *)
(***************************************************************************)
MaxFrames == 5      \* animation-frame requests issued in one behaviour
MaxTime == 5        \* the clock stops here
MaxWait == 2        \* the debounce waits tried are 1..MaxWait
MaxCalls == 3       \* calls of a debounced function in one behaviour
MaxRuns == 3        \* timerRuns saturates here
MaxLog == 2         \* calls of toggleSidebar kept in toggleLog
MaxBatch == 3       \* entries in one observation batch

(***************************************************************************)
(* Program constants.                                                      *)
(***************************************************************************)
typeSpeed == 100
deleteSpeed == 50
delayBetweenPhrases == 2000
startDelay == 500

SectionIds == {"s1", "s2", "s3"}
NavHrefs == <<"#s1", "#s2", "#s3">>
Images == {"img1", "img2"}
Args == {"e1", "e2"}
ProgramPhrases == <<"developer.", "problem solver.", "computer engineer.">>
PhraseLists == {ProgramPhrases, <<"a.", "bb.">>}

\* The statements of the try block of the renderer setup that can throw, in
\* program order; "animate" is the first call of animate(), whose
\* renderer.render comes after its requestAnimationFrame.
SetupSteps == <<"WebGLRenderer", "updateCanvasSize", "setAttribute", "animate">>
AnimateStep == Len(SetupSteps)

(***************************************************************************)
(* Sidebar controller, script.js:38-62 and 264-269.                        *)
(***************************************************************************)
ShowArgs == {"undefined", "true", "false"}

\* A variant of ShowSidebar that tests the argument for truthiness
\* (show ? show : !isVisible), so that false flips like no argument.
ShowSidebarTruthy(show, isVisible) ==
  IF show = "true" THEN TRUE ELSE ~isVisible

\* script.js:40: an explicit state is forced, no argument flips the state.
ShowSidebar(show, isVisible) ==
  IF show # "undefined" THEN show = "true" ELSE ~isVisible

\* String(showSidebar), what setAttribute stores.
BoolString(b) == IF b THEN "true" ELSE "false"

\* toggleSidebar dereferences hamburger, sidebar and overlay unguarded: a null
\* one raises a TypeError.
ToggleThrows == ~sidebar \/ ~hamburger \/ ~overlay

\* A variant of ToggleSidebar that leaves the overlay's class alone.
ToggleSidebarNoOverlay(show) ==
  LET showSidebar == ShowSidebar(show, sidebarShow)
  IN /\ hamburgerActive' = showSidebar
     /\ sidebarShow' = showSidebar
     /\ overlayShow' = overlayShow
     /\ bodySidebarOpen' = showSidebar
     /\ ariaExpanded' = BoolString(showSidebar)
     /\ uncaught' = uncaught
     /\ toggleLog' = LET log == Append(toggleLog, [show |-> show, before |-> sidebarShow,
                                                   after |-> sidebarShow'])
                     IN IF Len(log) > MaxLog THEN Tail(log) ELSE log

\* toggleSidebar(show), statement by statement: a TypeError leaves the
\* statements before it done (line 39 sidebar, 42 hamburger, 44 overlay).
ToggleSidebar(show) ==
  LET showSidebar == ShowSidebar(show, sidebarShow)
      reach42 == sidebar
      reach43 == reach42 /\ hamburger
      reach45 == reach43 /\ overlay
  IN /\ hamburgerActive' = IF reach43 THEN showSidebar ELSE hamburgerActive
     /\ sidebarShow' = IF reach43 THEN showSidebar ELSE sidebarShow
     /\ overlayShow' = IF reach45 THEN showSidebar ELSE overlayShow
     /\ bodySidebarOpen' = IF reach45 THEN showSidebar ELSE bodySidebarOpen
     /\ ariaExpanded' = IF reach45 THEN BoolString(showSidebar) ELSE ariaExpanded
     /\ uncaught' = IF ToggleThrows THEN uncaught \cup {"TypeError"} ELSE uncaught
     /\ toggleLog' = LET log == Append(toggleLog, [show |-> show, before |-> sidebarShow,
                                                   after |-> sidebarShow'])
                     IN IF Len(log) > MaxLog THEN Tail(log) ELSE log

\* script.js:51, the hamburger's click listener.
HamburgerClick ==
  /\ loaded # "pending"
  /\ hamburger
  /\ IF "hamburgerClick" \in listeners
       THEN ToggleSidebar("undefined")
       ELSE UNCHANGED <<sidebarVars, uncaught, toggleLog>>
  /\ event' = "hamburgerClick"
  /\ UNCHANGED <<cfgVars, spyVars, clickLog, loadVars, focus, typingVars, hidden, rendererVars, imageVars,
                 debounceVars>>

\* script.js:52, the overlay's click listener.
OverlayClick ==
  /\ loaded # "pending"
  /\ overlay
  /\ IF "overlayClick" \in listeners
       THEN ToggleSidebar("false")
       ELSE UNCHANGED <<sidebarVars, uncaught, toggleLog>>
  /\ event' = "overlayClick"
  /\ UNCHANGED <<cfgVars, spyVars, clickLog, loadVars, focus, typingVars, hidden, rendererVars, imageVars,
                 debounceVars>>

\* script.js:56-60, the click listener of a link inside the sidebar.
SidebarLinkClick ==
  /\ loaded # "pending"
  /\ sidebar
  /\ IF "sidebarLinkClick" \in listeners /\ sidebarShow
       THEN ToggleSidebar("false")
       ELSE UNCHANGED <<sidebarVars, uncaught, toggleLog>>
  /\ event' = "sidebarLinkClick"
  /\ UNCHANGED <<cfgVars, spyVars, clickLog, loadVars, focus, typingVars, hidden, rendererVars, imageVars,
                 debounceVars>>

Keys == {"Escape", "Enter"}

\* script.js:264-269, the document's keydown listener. The test reads
\* sidebar.classList with no null check: without a sidebar, Escape raises a
\* TypeError. hamburger.focus() runs only if toggleSidebar returned.
Keydown(key) ==
  /\ loaded # "pending"
  /\ IF "keydown" \notin listeners \/ key # "Escape"
       THEN UNCHANGED <<sidebarVars, uncaught, toggleLog, focus>>
       ELSE IF ~sidebar
         THEN /\ uncaught' = uncaught \cup {"TypeError"}
              /\ UNCHANGED <<sidebarVars, toggleLog, focus>>
         ELSE IF sidebarShow
           THEN /\ ToggleSidebar("false")
                /\ focus' = IF ToggleThrows THEN focus ELSE "hamburger"
           ELSE UNCHANGED <<sidebarVars, uncaught, toggleLog, focus>>
  /\ event' = key
  /\ UNCHANGED <<cfgVars, spyVars, clickLog, loadVars, typingVars, hidden, rendererVars, imageVars,
                 debounceVars>>

\* toggleSidebar called directly with any argument (its contract as a function).
CallToggleSidebar(show) ==
  /\ loaded = "done"
  /\ ToggleSidebar(show)
  /\ UNCHANGED <<cfgVars, event, spyVars, clickLog, loadVars, focus, typingVars, hidden, rendererVars, imageVars,
                 debounceVars>>

(***************************************************************************)
(* Typing animator, script.js:90-131.                                      *)
(***************************************************************************)
Min(a, b) == IF a < b THEN a ELSE b
Max(a, b) == IF a > b THEN a ELSE b

\* A variant of Substring that takes `end` as the index of the last character.
SubstringInclusive(str, start, end) ==
  SubSeq(str, Max(start, 0) + 1, Min(end + 1, Len(str)))

\* String.prototype.substring(start, end): both ends are clamped to
\* 0..length and swapped when start > end.
Substring(str, start, end) ==
  LET a == Min(Max(start, 0), Len(str))
      b == Min(Max(end, 0), Len(str))
  IN SubSeq(str, Min(a, b) + 1, Max(a, b))

\* A variant of TickTimeout without the pause after a full phrase.
TickTimeoutNoPause(deleting, count, phraseLen) ==
  IF deleting THEN deleteSpeed ELSE typeSpeed

\* script.js:114-122: the delay of the next tick, from the flags as they are
\* before the transition test.
TickTimeout(deleting, count, phraseLen) ==
  IF ~deleting /\ count = phraseLen THEN delayBetweenPhrases
  ELSE IF deleting THEN deleteSpeed ELSE typeSpeed

\* A variant of Rearm that ignores the motion preference.
RearmAlways(reduced, delay) == delay

\* script.js:124-128: the timer is re-armed only when motion is not reduced.
Rearm(reduced, delay) == IF reduced THEN 0 ELSE delay

\* script.js:101-129, one run of animateTyping, started by its timer.
AnimateTyping ==
  /\ typingTimer # 0
  /\ LET currentPhrase == phrases[phraseIndex + 1]
         count == IF isDeleting THEN charIndex - 1 ELSE charIndex + 1
         displayText == Substring(currentPhrase, 0, count)
         toDeleting == ~isDeleting /\ count = Len(currentPhrase)
         toGrowing == ~toDeleting /\ isDeleting /\ count = 0
     IN /\ charIndex' = count
        /\ isDeleting' = IF toDeleting THEN TRUE ELSE IF toGrowing THEN FALSE ELSE isDeleting
        /\ phraseIndex' = IF toGrowing THEN (phraseIndex + 1) % Len(phrases) ELSE phraseIndex
        /\ typingTimer' = Rearm(prefersReducedMotion,
                                TickTimeout(isDeleting, count, Len(currentPhrase)))
        /\ textContent' = IF prefersReducedMotion THEN phrases[1] ELSE displayText
        /\ written' = IF charIndex = 0 /\ ~isDeleting THEN <<textContent'>>
                      ELSE Append(written, textContent')
  /\ timerRuns' = Min(timerRuns + 1, MaxRuns)
  /\ UNCHANGED <<cfgVars, event, spyVars, clickLog, loadVars, uncaught, sidebarVars, focus, toggleLog, phrases, hidden,
                 rendererVars, imageVars, debounceVars>>

(***************************************************************************)
(* Particle-field renderer, script.js:134-211.                             *)
(***************************************************************************)
\* script.js:134, the guard of the renderer setup.
RendererGuard == canvas /\ hasTHREE /\ ~prefersReducedMotion

\* script.js:204: cancelAnimationFrame(id) drops that request only.
CancelAnimationFrame(id, pending) == pending \ {id}

\* script.js:192: requestAnimationFrame adds a request; nothing is cancelled.
RequestAnimationFrame(id, pending) == pending \cup {id}

\* renderer.render throws in every call when it threw in the first one.
RenderThrows == throwAt = AnimateStep

\* script.js:191-197, animate() run as an animation-frame callback. The host
\* runs the callbacks of a visible page only.
AnimationFrame(id) ==
  /\ id \in pendingFrames
  /\ ~hidden
  /\ nextFrameId <= MaxFrames
  /\ pendingFrames' = RequestAnimationFrame(nextFrameId, pendingFrames \ {id})
  /\ animationId' = nextFrameId
  /\ nextFrameId' = nextFrameId + 1
  /\ renders' = IF RenderThrows THEN renders ELSE renders + 1
  /\ uncaught' = IF RenderThrows THEN uncaught \cup {"RenderError"} ELSE uncaught
  /\ UNCHANGED <<cfgVars, event, spyVars, clickLog, loadVars, sidebarVars, focus, toggleLog, typingVars, hidden,
                 canvasDisplay, imageVars, debounceVars>>

\* script.js:203-206, the page's visibility changes; the listener exists only
\* after a renderer setup that ran to its end.
VisibilityChange ==
  /\ loaded # "pending"
  /\ hidden' = ~hidden
  /\ IF "visibilitychange" \notin listeners
       THEN UNCHANGED <<animationId, pendingFrames, nextFrameId, renders>>
       ELSE IF hidden'
         THEN /\ pendingFrames' = CancelAnimationFrame(animationId, pendingFrames)
              /\ UNCHANGED <<animationId, nextFrameId, renders>>
         ELSE /\ nextFrameId <= MaxFrames
              /\ pendingFrames' = RequestAnimationFrame(nextFrameId, pendingFrames)
              /\ animationId' = nextFrameId
              /\ nextFrameId' = nextFrameId + 1
              /\ renders' = renders + 1
  /\ UNCHANGED <<cfgVars, event, spyVars, clickLog, loadVars, uncaught, sidebarVars, focus, toggleLog, typingVars,
                 canvasDisplay, imageVars, debounceVars>>

(***************************************************************************)
(* The DOMContentLoaded handler, script.js:24-272.                         *)
(***************************************************************************)
\* script.js:50-62.
SidebarListeners ==
  IF hamburger /\ sidebar /\ overlay
    THEN {"hamburgerClick", "overlayClick", "sidebarLinkClick"} ELSE {}

\* script.js:65: the scroll-spy is set up when links and sections exist.
ScrollSpyGuard == Len(navLinks) > 0 /\ sections # {}

\* script.js:72: `new IntersectionObserver` is not guarded by a capability
\* test: where the host has none, it raises a ReferenceError.
ScrollSpyThrows == ScrollSpyGuard /\ ~hasIntersectionObserver

\* script.js:215, the guard of the lazy branch of the image loader.
LazyGuard == hasIntersectionObserver /\ lazyImages # {}

\* script.js:207-210: an exception of the try block is caught.
SetupThrows == RendererGuard /\ throwAt # 0

\* script.js:200-206: the listeners the renderer setup registers at its end.
RendererListeners == IF RendererGuard /\ ~SetupThrows THEN {"resize", "visibilitychange"} ELSE {}

\* script.js:198: the first animate() is reached, and requests a frame.
FirstFrameRequested == RendererGuard /\ (throwAt = 0 \/ throwAt >= AnimateStep)

\* script.js:213-269: the components wired after the renderer.
LateListeners ==
  (IF LazyGuard THEN {"imageObserver"} ELSE {}) \cup {"anchorClick", "keydown"}

DOMContentLoaded ==
  /\ loaded = "pending"
  /\ IF ScrollSpyThrows
       THEN /\ loaded' = "threw"
            /\ listeners' = SidebarListeners
            /\ uncaught' = uncaught \cup {"ReferenceError"}
            /\ UNCHANGED <<typingTimer, rendererVars, imageVars>>
       ELSE /\ loaded' = "done"
            /\ listeners' = SidebarListeners
                            \cup (IF ScrollSpyGuard THEN {"sectionObserver"} ELSE {})
                            \cup RendererListeners \cup LateListeners
            /\ uncaught' = uncaught
            /\ typingTimer' = IF typewriterElement THEN startDelay ELSE 0
            /\ canvasDisplay' = IF SetupThrows THEN "none" ELSE canvasDisplay
            /\ pendingFrames' = IF FirstFrameRequested
                                  THEN RequestAnimationFrame(nextFrameId, pendingFrames)
                                  ELSE pendingFrames
            /\ animationId' = IF FirstFrameRequested THEN nextFrameId ELSE animationId
            /\ nextFrameId' = IF FirstFrameRequested THEN nextFrameId + 1 ELSE nextFrameId
            /\ renders' = IF RendererGuard /\ ~SetupThrows THEN renders + 1 ELSE renders
            /\ observedImages' = IF LazyGuard THEN lazyImages ELSE {}
            /\ imgSrc' = IF LazyGuard THEN imgSrc ELSE imgSrc \cup lazyImages
            /\ imgDataSrc' = IF LazyGuard THEN imgDataSrc ELSE imgDataSrc \ lazyImages
            /\ srcWrites' = [img \in Images |->
                               IF ~LazyGuard /\ img \in lazyImages
                                 THEN Append(srcWrites[img], "data-src") ELSE srcWrites[img]]
            /\ imageBatch' = imageBatch
  /\ UNCHANGED <<cfgVars, event, spyVars, clickLog, sidebarVars, focus, toggleLog, phrases, phraseIndex, charIndex,
                 isDeleting, textContent, timerRuns, written, hidden, debounceVars>>

(***************************************************************************)
(* debounce, script.js:7-17. Time is discrete; the host runs a timer's     *)
(* callback at its due time or later, never earlier.                       *)
(***************************************************************************)
\* A variant of ClearTimeout that cancels nothing.
ClearTimeoutNothing(id, pending) == pending

\* clearTimeout(id): the pending timer with that id, if any, is dropped.
ClearTimeout(id, pending) == {t \in pending : t.id # id}

\* setTimeout(later, wait) at time `at`; `later` has captured args.
SetTimeout(id, at, delay, args, pending) ==
  pending \cup {[id |-> id, due |-> at + delay, args |-> args]}

\* script.js:9-16, one call of the wrapper executedFunction(...args).
ExecutedFunction(args) ==
  /\ Len(callLog) < MaxCalls
  /\ timers' = SetTimeout(nextTimerId, now, wait, args, ClearTimeout(timeout, timers))
  /\ timeout' = nextTimerId
  /\ nextTimerId' = nextTimerId + 1
  /\ callLog' = Append(callLog, <<now, args>>)
  /\ UNCHANGED <<cfgVars, event, spyVars, clickLog, loadVars, uncaught, sidebarVars, focus, toggleLog, typingVars,
                 hidden, rendererVars, imageVars, now, wait, fired>>

\* script.js:10-13, `later` run by the host for the due timer t.
Later(t) ==
  /\ t \in timers
  /\ now >= t.due
  /\ timers' = ClearTimeout(timeout, timers \ {t})
  /\ fired' = Append(fired, <<now, t.args>>)
  /\ UNCHANGED <<cfgVars, event, spyVars, clickLog, loadVars, uncaught, sidebarVars, focus, toggleLog, typingVars,
                 hidden, rendererVars, imageVars, now, wait, timeout, nextTimerId, callLog>>

\* Time passes.
Tick ==
  /\ now < MaxTime
  /\ now' = now + 1
  /\ UNCHANGED <<cfgVars, event, spyVars, clickLog, loadVars, uncaught, sidebarVars, focus, toggleLog, typingVars,
                 hidden, rendererVars, imageVars, wait, timeout, timers, nextTimerId, fired,
                 callLog>>

(***************************************************************************)
(* Scroll-spy (the sectionObserver callback).  An observation batch is a   *)
(* sequence of entries, one record per change of an observed section: the  *)
(* observer queues an entry when a target's intersection state changes.    *)
(***************************************************************************)
Entries == [target : SectionIds, isIntersecting : BOOLEAN]

RECURSIVE SeqsUpTo(_, _)
SeqsUpTo(S, n) ==
  IF n = 0 THEN {<<>>}
  ELSE LET shorter == SeqsUpTo(S, n - 1)
       IN  shorter \cup {Append(q, x) : q \in {r \in shorter : Len(r) = n - 1}, x \in S}

\* the entries of one target in a batch alternate between the two states
Alternating(entries) ==
  \A i, j \in 1..Len(entries) :
     (/\ i < j /\ entries[i].target = entries[j].target
      /\ \A k \in (i + 1)..(j - 1) : entries[k].target # entries[i].target)
       => entries[i].isIntersecting # entries[j].isIntersecting

Batches == {b \in SeqsUpTo(Entries, MaxBatch) \ {<<>>} : Alternating(b)}

\* the links whose href is "#" followed by the id
LinksTo(id) == {i \in 1..Len(navLinks) : navLinks[i] = "#" \o id}

\* every link gets the marker added when it matches, none has it removed
ActiveAfterKeeping(active, entry) ==
  IF entry.isIntersecting THEN active \cup LinksTo(entry.target) ELSE active

\* one entry: every link loses the marker, the matching ones get it
ActiveAfter(active, entry) ==
  IF entry.isIntersecting THEN LinksTo(entry.target) ELSE active

RECURSIVE ForEachEntry(_, _)
ForEachEntry(active, entries) ==
  IF entries = <<>> THEN active
  ELSE ForEachEntry(ActiveAfter(active, Head(entries)), Tail(entries))

SectionObserverCallback ==
  /\ "sectionObserver" \in listeners
  /\ \E entries \in Batches :
       /\ \A i \in 1..Len(entries) : entries[i].target \in sections
       /\ spyBatch' = entries
       /\ navActive' = ForEachEntry(navActive, entries)
  /\ UNCHANGED <<cfgVars, loadVars, uncaught, sidebarVars, focus, toggleLog, event, clickLog,
                 typingVars, hidden, rendererVars, imageVars, debounceVars>>


(***************************************************************************)
(* Lazy images (the imageObserver callback).  The observer queues one      *)
(* entry per change of a target's intersection state, so the entries of a  *)
(* target alternate; a batch holds what was queued since the last call.    *)
(***************************************************************************)
ImageEntries == [target : Images, isIntersecting : BOOLEAN]

ImageBatches == {b \in SeqsUpTo(ImageEntries, MaxBatch) \ {<<>>} : Alternating(b)}

\* the string img.src receives from img.dataset.src
DatasetSrc(img, dataSrc) == IF img \in dataSrc THEN "data-src" ELSE "undefined"

\* one entry: img.src = img.dataset.src; removeAttribute; unobserve
LoadImage(st, entry) ==
  IF entry.isIntersecting
    THEN [src |-> st.src \cup {entry.target},
          dataSrc |-> st.dataSrc \ {entry.target},
          observed |-> st.observed \ {entry.target},
          writes |-> [st.writes EXCEPT
                        ![entry.target] = Append(@, DatasetSrc(entry.target, st.dataSrc))]]
    ELSE st

RECURSIVE ForEachImageEntry(_, _)
ForEachImageEntry(st, entries) ==
  IF entries = <<>> THEN st
  ELSE ForEachImageEntry(LoadImage(st, Head(entries)), Tail(entries))

ImageObserverCallback ==
  /\ "imageObserver" \in listeners
  /\ \E entries \in ImageBatches :
       /\ \A i \in 1..Len(entries) : entries[i].target \in observedImages
       /\ LET st == ForEachImageEntry([src |-> imgSrc, dataSrc |-> imgDataSrc,
                                       observed |-> observedImages, writes |-> srcWrites],
                                      entries)
          IN  /\ imgSrc' = st.src
              /\ imgDataSrc' = st.dataSrc
              /\ observedImages' = st.observed
              /\ srcWrites' = st.writes
       /\ imageBatch' = entries
  /\ UNCHANGED <<cfgVars, loadVars, uncaught, sidebarVars, focus, toggleLog, event, spyVars,
                 clickLog, typingVars, hidden, rendererVars, debounceVars>>


(***************************************************************************)
(* Smooth scroll of the in-page anchors (a[href^="#"]).                    *)
(***************************************************************************)
AnchorHrefs == {"#", "#s1", "#missing", "#1st"}

\* the ids of the page's elements: its sections and one id that starts with a digit
ElementIds == sections \cup {"1st"}

\* the fragment of an href: what follows the "#"
Fragment(href) == SubSeq(href, 2, Len(href))

\* an id selector whose identifier starts with a digit is not a valid selector
Digits == {"0", "1", "2", "3", "4", "5", "6", "7", "8", "9"}
ValidSelector(targetId) == SubSeq(targetId, 2, 2) \notin Digits

\* document.querySelector(targetId), for a valid selector
QuerySelector(targetId) ==
  IF Fragment(targetId) \in ElementIds THEN Fragment(targetId) ELSE "null"

\* the calls made once the target element is found
ScrollThenPush(pushState) ==
  <<"preventDefault", "scrollIntoView">> \o (IF pushState THEN <<"pushState">> ELSE <<>>)

AnchorClick(href) ==
  /\ loaded # "pending"
  /\ IF "anchorClick" \notin listeners \/ href = "#"
       THEN /\ clickLog' = [href |-> href, did |-> <<>>]
            /\ uncaught' = uncaught
       ELSE IF ~ValidSelector(href)
         THEN /\ clickLog' = [href |-> href, did |-> <<>>]
              /\ uncaught' = uncaught \cup {"SyntaxError"}
         ELSE /\ clickLog' = [href |-> href,
                              did |-> IF QuerySelector(href) # "null"
                                        THEN ScrollThenPush(hasPushState) ELSE <<>>]
              /\ uncaught' = uncaught
  /\ UNCHANGED <<cfgVars, loadVars, sidebarVars, focus, toggleLog, event, spyVars,
                 typingVars, hidden, rendererVars, imageVars, debounceVars>>


(***************************************************************************)
(* Initial states and specifications.                                      *)
(***************************************************************************)
\* The page with every element and capability, motion not reduced.
FullPage ==
  /\ sections = SectionIds /\ navLinks = NavHrefs
  /\ hamburger = TRUE /\ sidebar = TRUE /\ overlay = TRUE
  /\ canvas = TRUE /\ typewriterElement = TRUE
  /\ lazyImages = Images
  /\ hasIntersectionObserver = TRUE /\ hasTHREE = TRUE /\ prefersReducedMotion = FALSE
  /\ throwAt = 0 /\ hasPushState = TRUE

\* The markers as an unopened sidebar has them.
MarkersOff ==
  /\ hamburgerActive = FALSE /\ sidebarShow = FALSE /\ overlayShow = FALSE
  /\ bodySidebarOpen = FALSE /\ ariaExpanded = "none"

\* script.js:92-95 and what the handler has not touched yet.
TypingStart ==
  /\ phraseIndex = 0 /\ charIndex = 0 /\ isDeleting = FALSE
  /\ typingTimer = 0 /\ timerRuns = 0 /\ written = <<>>

RendererStart ==
  /\ canvasDisplay = "" /\ animationId = 0 /\ pendingFrames = {} /\ nextFrameId = 1
  /\ renders = 0

ImagesStart ==
  /\ imgSrc = {} /\ imgDataSrc = lazyImages /\ observedImages = {}
  /\ srcWrites = [img \in Images |-> <<>>] /\ imageBatch = <<>>

\* script.js:8: timeout is undefined and no timer exists.
DebounceStart ==
  /\ now = 0 /\ timeout = 0 /\ timers = {} /\ nextTimerId = 1
  /\ fired = <<>> /\ callLog = <<>>

HandlerStart ==
  /\ loaded = "pending" /\ listeners = {} /\ uncaught = {}
  /\ focus = "elsewhere" /\ toggleLog = <<>> /\ event = "none"
  /\ spyBatch = <<>> /\ clickLog = [href |-> "none", did |-> <<>>]

\* Any document and host: each element present or absent, each capability
\* there or not, any failing setup step, the page loaded in the foreground or
\* in the background, the sidebar's markup open or closed.
Init ==
  /\ sections \in {{}, SectionIds}
  /\ navLinks \in {<<>>, NavHrefs}
  /\ hamburger \in BOOLEAN /\ sidebar \in BOOLEAN /\ overlay \in BOOLEAN
  /\ canvas \in BOOLEAN /\ typewriterElement \in BOOLEAN
  /\ lazyImages \in {{}, Images}
  /\ hasIntersectionObserver \in BOOLEAN /\ hasTHREE \in BOOLEAN
  /\ prefersReducedMotion \in BOOLEAN
  /\ throwAt \in 0..Len(SetupSteps) /\ hasPushState = TRUE
  /\ hidden \in BOOLEAN
  /\ hamburgerActive = FALSE /\ overlayShow = FALSE /\ bodySidebarOpen = FALSE
  /\ ariaExpanded = "none"
  /\ sidebarShow \in (IF sidebar THEN BOOLEAN ELSE {FALSE})
  /\ phrases = ProgramPhrases /\ textContent = ""
  /\ wait = 1
  /\ navActive = {}
  /\ HandlerStart /\ TypingStart /\ RendererStart /\ ImagesStart /\ DebounceStart

Next ==
  \/ DOMContentLoaded
  \/ HamburgerClick
  \/ OverlayClick
  \/ SidebarLinkClick
  \/ \E key \in Keys : Keydown(key)

Spec == Init /\ [][Next]_vars

\* toggleSidebar as a function: the full page, any markup of the five markers.
InitToggle ==
  /\ FullPage /\ hidden = FALSE
  /\ hamburgerActive \in BOOLEAN /\ sidebarShow \in BOOLEAN /\ overlayShow \in BOOLEAN
  /\ bodySidebarOpen \in BOOLEAN /\ ariaExpanded \in {"none", "true", "false"}
  /\ phrases = ProgramPhrases /\ textContent = ""
  /\ wait = 1
  /\ navActive = {}
  /\ HandlerStart /\ TypingStart /\ RendererStart /\ ImagesStart /\ DebounceStart

NextToggle ==
  \/ DOMContentLoaded
  \/ \E show \in ShowArgs : CallToggleSidebar(show)

SpecToggle == InitToggle /\ [][NextToggle]_vars

\* The typing animator: with or without the element, either motion
\* preference, the program's phrases or a short list, the element's markup
\* empty or holding the first phrase.
InitTyping ==
  /\ sections = SectionIds /\ navLinks = NavHrefs
  /\ hamburger = TRUE /\ sidebar = TRUE /\ overlay = TRUE /\ canvas = TRUE
  /\ typewriterElement \in BOOLEAN
  /\ lazyImages = Images
  /\ hasIntersectionObserver = TRUE /\ hasTHREE = TRUE
  /\ prefersReducedMotion \in BOOLEAN
  /\ throwAt = 0 /\ hasPushState = TRUE /\ hidden = FALSE
  /\ MarkersOff
  /\ phrases \in PhraseLists
  /\ textContent \in {"", phrases[1]}
  /\ wait = 1
  /\ navActive = {}
  /\ HandlerStart /\ TypingStart /\ RendererStart /\ ImagesStart /\ DebounceStart

NextTyping ==
  \/ DOMContentLoaded
  \/ AnimateTyping

SpecTyping == InitTyping /\ [][NextTyping]_vars

\* The renderer: any prerequisite present or absent, any failing setup step,
\* the page loaded in the foreground or in the background.
InitRenderer ==
  /\ sections = SectionIds /\ navLinks = NavHrefs
  /\ hamburger = TRUE /\ sidebar = TRUE /\ overlay = TRUE
  /\ canvas \in BOOLEAN
  /\ typewriterElement = TRUE
  /\ lazyImages = Images
  /\ hasIntersectionObserver = TRUE
  /\ hasTHREE \in BOOLEAN
  /\ prefersReducedMotion \in BOOLEAN
  /\ throwAt \in 0..Len(SetupSteps) /\ hasPushState = TRUE
  /\ hidden \in BOOLEAN
  /\ MarkersOff
  /\ phrases = ProgramPhrases /\ textContent = ""
  /\ wait = 1
  /\ navActive = {}
  /\ HandlerStart /\ TypingStart /\ RendererStart /\ ImagesStart /\ DebounceStart

NextRenderer ==
  \/ DOMContentLoaded
  \/ VisibilityChange
  \/ \E id \in pendingFrames : AnimationFrame(id)

SpecRenderer == InitRenderer /\ [][NextRenderer]_vars

\* A debounced function right after debounce(func, wait) returned.
InitDebounce ==
  /\ FullPage /\ hidden = FALSE
  /\ MarkersOff
  /\ phrases = ProgramPhrases /\ textContent = ""
  /\ wait \in 1..MaxWait
  /\ navActive = {}
  /\ HandlerStart /\ TypingStart /\ RendererStart /\ ImagesStart /\ DebounceStart

NextDebounce ==
  \/ \E args \in Args : ExecutedFunction(args)
  \/ \E t \in timers : Later(t)
  \/ Tick

SpecDebounce == InitDebounce /\ [][NextDebounce]_vars

\* The sidebar controller: each of its three elements present or absent, a
\* host with or without IntersectionObserver, a page with or without
\* sections, the markers off as in a page whose sidebar starts closed.
InitSidebar ==
  /\ sections \in {{}, SectionIds} /\ navLinks = NavHrefs
  /\ hamburger \in BOOLEAN /\ sidebar \in BOOLEAN /\ overlay \in BOOLEAN
  /\ canvas = TRUE /\ typewriterElement = TRUE
  /\ lazyImages = Images
  /\ hasIntersectionObserver \in BOOLEAN
  /\ hasTHREE = TRUE /\ prefersReducedMotion = FALSE
  /\ throwAt = 0 /\ hasPushState = TRUE /\ hidden = FALSE
  /\ MarkersOff
  /\ phrases = ProgramPhrases /\ textContent = ""
  /\ wait = 1
  /\ navActive = {}
  /\ HandlerStart /\ TypingStart /\ RendererStart /\ ImagesStart /\ DebounceStart

NextSidebar ==
  \/ DOMContentLoaded
  \/ HamburgerClick
  \/ OverlayClick
  \/ SidebarLinkClick
  \/ \E key \in Keys : Keydown(key)

SpecSidebar == InitSidebar /\ [][NextSidebar]_vars


\* the scroll-spy on pages whose links repeat an href or point at no section
NavLists == {NavHrefs, <<"#s1", "#s2", "#s2", "#top">>}

InitSpy ==
  /\ sections = SectionIds /\ navLinks \in NavLists
  /\ hamburger = TRUE /\ sidebar = TRUE /\ overlay = TRUE
  /\ canvas = TRUE /\ typewriterElement = TRUE
  /\ lazyImages = Images
  /\ hasIntersectionObserver \in BOOLEAN
  /\ hasTHREE = TRUE /\ prefersReducedMotion = FALSE
  /\ throwAt = 0 /\ hasPushState = TRUE /\ hidden = FALSE
  /\ MarkersOff
  /\ phrases = ProgramPhrases /\ textContent = ""
  /\ wait = 1
  /\ navActive \in {{}, {1}}
  /\ HandlerStart /\ TypingStart /\ RendererStart /\ ImagesStart /\ DebounceStart

NextSpy ==
  \/ DOMContentLoaded
  \/ SectionObserverCallback

SpecSpy == InitSpy /\ [][NextSpy]_vars


\* the lazy loader on a host with IntersectionObserver
InitImages ==
  /\ sections = SectionIds /\ navLinks = NavHrefs
  /\ hamburger = TRUE /\ sidebar = TRUE /\ overlay = TRUE
  /\ canvas = TRUE /\ typewriterElement = TRUE
  /\ lazyImages \in {Images, {"img1"}}
  /\ hasIntersectionObserver = TRUE
  /\ hasTHREE \in BOOLEAN /\ prefersReducedMotion \in BOOLEAN
  /\ throwAt = 0 /\ hasPushState = TRUE /\ hidden = FALSE
  /\ MarkersOff
  /\ phrases = ProgramPhrases /\ textContent = ""
  /\ wait = 1
  /\ navActive = {}
  /\ HandlerStart /\ TypingStart /\ RendererStart /\ ImagesStart /\ DebounceStart

NextImages ==
  \/ DOMContentLoaded
  \/ ImageObserverCallback

SpecImages == InitImages /\ [][NextImages]_vars


\* the anchors on hosts with and without IntersectionObserver and history.pushState
InitAnchor ==
  /\ sections \in {{}, SectionIds} /\ navLinks = NavHrefs
  /\ hamburger = TRUE /\ sidebar = TRUE /\ overlay = TRUE
  /\ canvas = TRUE /\ typewriterElement = TRUE
  /\ lazyImages = Images
  /\ hasIntersectionObserver \in BOOLEAN
  /\ hasTHREE = TRUE /\ prefersReducedMotion \in BOOLEAN
  /\ throwAt = 0 /\ hasPushState \in BOOLEAN /\ hidden = FALSE
  /\ MarkersOff
  /\ phrases = ProgramPhrases /\ textContent = ""
  /\ wait = 1
  /\ navActive = {}
  /\ HandlerStart /\ TypingStart /\ RendererStart /\ ImagesStart /\ DebounceStart

NextAnchor ==
  \/ DOMContentLoaded
  \/ \E href \in AnchorHrefs : AnchorClick(href)

SpecAnchor == InitAnchor /\ [][NextAnchor]_vars


\* the typing animation with the host's scheduling: the document finishes
\* loading and a pending timer fires, on hosts with and without
\* IntersectionObserver
InitTypingLive ==
  /\ sections = SectionIds /\ navLinks = NavHrefs
  /\ hamburger = TRUE /\ sidebar = TRUE /\ overlay = TRUE /\ canvas = TRUE
  /\ typewriterElement \in BOOLEAN
  /\ lazyImages = Images
  /\ hasIntersectionObserver \in BOOLEAN /\ hasTHREE = TRUE
  /\ prefersReducedMotion \in BOOLEAN
  /\ throwAt = 0 /\ hasPushState = TRUE /\ hidden = FALSE
  /\ MarkersOff
  /\ phrases \in PhraseLists
  /\ textContent = ""
  /\ wait = 1
  /\ navActive = {}
  /\ HandlerStart /\ TypingStart /\ RendererStart /\ ImagesStart /\ DebounceStart

SpecTypingLive ==
  InitTypingLive /\ [][NextTyping]_vars /\ WF_vars(DOMContentLoaded) /\ WF_vars(AnimateTyping)


(***************************************************************************)
(* The claims.                                                             *)
(***************************************************************************)
\* Every call of the wrapper so far came less than `wait` after the previous one.
OneBurst == \A i \in 2..Len(callLog) : callLog[i][1] - callLog[i - 1][1] < wait

LastCallOfBurst == callLog[Len(callLog)]

\* C1: when the wrapper has been called N >= 1 times, each call less than
\* `wait` after the previous one, func is invoked exactly once: not at all
\* while the burst's timer is pending, once when no timer is left, never
\* earlier than `wait` after the last call and with the last call's arguments.
C1_BurstFiresOnceWithLastArgs ==
  (Len(callLog) >= 1 /\ OneBurst) =>
    /\ Len(fired) <= 1
    /\ (timers = {}) <=> (Len(fired) = 1)
    /\ \A i \in 1..Len(fired) :
         /\ fired[i][1] >= LastCallOfBurst[1] + wait
         /\ fired[i][2] = LastCallOfBurst[2]

\* A burst of three calls, the first with other arguments than the last, has fired.
C1_Witness ==
  /\ Len(callLog) = 3 /\ OneBurst
  /\ callLog[1][2] # callLog[3][2]
  /\ Len(fired) = 1 /\ timers = {}

AnySidebarElementAbsent == ~hamburger \/ ~sidebar \/ ~overlay

\* C2: with one of the hamburger, the sidebar and the overlay absent, no
\* event delivered after initialization changes a sidebar marker or raises
\* an error.
C2_InertWhenElementAbsent ==
  [][(AnySidebarElementAbsent /\ loaded # "pending")
       => (UNCHANGED sidebarVars /\ uncaught' = uncaught)]_vars

FirstPhraseOfShortListDone ==
  /\ phrases = <<"a.", "bb.">> /\ ~prefersReducedMotion
  /\ phraseIndex = 1 /\ charIndex = 0 /\ ~isDeleting

\* C4 as stated: the strings written for phrase 1 of ["a.", "bb."] are
\* exactly "a", "a.", "".
C4_ThreeStrings == FirstPhraseOfShortListDone => written = <<"a", "a.", "">>

\* C4 amended: the strings written for phrase 1 of ["a.", "bb."] are exactly
\* "a", "a.", "a", "": one character more or less per tick.
C4_FourStrings == FirstPhraseOfShortListDone => written = <<"a", "a.", "a", "">>

C4_Witness == FirstPhraseOfShortListDone /\ Len(written) = 4 /\ textContent = ""

\* C5: at most one animation-frame request is pending, and animationId
\* names it.
C5_AtMostOnePendingFrame ==
  /\ Cardinality(pendingFrames) <= 1
  /\ pendingFrames # {} => pendingFrames = {animationId}

\* C6: with the renderer running, a step that leaves the page hidden leaves
\* no frame request pending and performs no render; the step that makes the
\* page visible performs a render, and while the page is visible a frame
\* request is pending.
C6_HiddenStopsVisibleRestarts ==
  [][("visibilitychange" \in listeners) =>
       /\ hidden' => (pendingFrames' = {} /\ renders' = renders)
       /\ (hidden /\ ~hidden') => renders' = renders + 1
       /\ ~hidden' => pendingFrames' # {}]_vars

\* C7: without intersection observation, initialization assigns the source
\* of every deferred image and removes its data-src attribute.
C7_FallbackAssignsAllSources ==
  (loaded # "pending" /\ ~hasIntersectionObserver) =>
    (imgSrc = lazyImages /\ imgDataSrc = {})

\* C8: for every document and host the handler runs to its end, and wires
\* every component whose own prerequisites are met.
C8_InitializationCompletes ==
  loaded # "pending" =>
    /\ loaded = "done"
    /\ "ReferenceError" \notin uncaught
    /\ SidebarListeners \cup LateListeners \subseteq listeners
    /\ typewriterElement => typingTimer = startDelay

\* The renderer setup was entered and one of its steps threw.
SetupEnteredAndThrew == loaded # "pending" /\ ~ScrollSpyThrows /\ SetupThrows

\* C9: when a step of the renderer setup throws, the canvas is hidden, the
\* handler still runs to its end, no frame request and no resize or
\* visibility listener of the renderer is left, and the components after the
\* renderer are wired.
C9_FailedSetupLeavesNothing ==
  SetupEnteredAndThrew =>
    /\ canvasDisplay = "none"
    /\ loaded = "done"
    /\ pendingFrames = {}
    /\ listeners \cap {"resize", "visibilitychange"} = {}
    /\ LateListeners \subseteq listeners
    /\ LazyGuard => observedImages = lazyImages
    /\ ~LazyGuard => imgSrc = lazyImages

\* The five markers of the sidebar all say b.
MarkersAre(b) ==
  /\ hamburgerActive = b /\ sidebarShow = b /\ overlayShow = b /\ bodySidebarOpen = b
  /\ ariaExpanded = BoolString(b)

\* C10: toggleSidebar(b) leaves the sidebar in state b whatever it was;
\* toggleSidebar() flips it; so toggleSidebar(true) then toggleSidebar()
\* leaves it hidden, toggleSidebar(false) on a hidden sidebar leaves it
\* hidden, and two toggleSidebar() in a row restore the state.
C10_ToggleForcesOrFlips ==
  /\ \A i \in 1..Len(toggleLog) :
       LET e == toggleLog[i]
       IN /\ e.show = "true" => e.after
          /\ e.show = "false" => ~e.after
          /\ e.show = "undefined" => (e.after = ~e.before)
          /\ i > 1 =>
               LET d == toggleLog[i - 1]
               IN /\ e.before = d.after
                  /\ (d.show = "true" /\ e.show = "undefined") => ~e.after
                  /\ (d.show = "undefined" /\ e.show = "undefined") => (e.after = d.before)
  /\ toggleLog # <<>> => MarkersAre(toggleLog[Len(toggleLog)].after)

\* toggleSidebar(true) then toggleSidebar() have run, from a hidden sidebar.
C10_Witness ==
  /\ Len(toggleLog) = 2
  /\ toggleLog[1].show = "true" /\ ~toggleLog[1].before
  /\ toggleLog[2].show = "undefined"
  /\ MarkersAre(FALSE)

AllSidebarElementsPresent == hamburger /\ sidebar /\ overlay

\* C11: with the three sidebar elements present, a hamburger click flips the
\* sidebar; an overlay click and a click on a link of the panel leave it
\* hidden; Escape while it is visible hides it and focuses the hamburger;
\* Escape while it is hidden and any other key change neither the sidebar
\* nor the focus.
C11_SidebarEvents ==
  [][(AllSidebarElementsPresent /\ loaded # "pending") =>
       /\ event' = "hamburgerClick" => sidebarShow' = ~sidebarShow
       /\ event' = "overlayClick" => ~sidebarShow'
       /\ event' = "sidebarLinkClick" => ~sidebarShow'
       /\ (event' = "Escape" /\ sidebarShow) => (~sidebarShow' /\ focus' = "hamburger")
       /\ ((event' = "Escape" /\ ~sidebarShow) \/ event' = "Enter")
            => (sidebarShow' = sidebarShow /\ focus' = focus)]_vars

\* The five markers of the sidebar say the same.
MarkersAgree ==
  /\ hamburgerActive = sidebarShow /\ overlayShow = sidebarShow
  /\ bodySidebarOpen = sidebarShow
  /\ (ariaExpanded = "true") <=> sidebarShow

\* C18: from a page whose markers are all off, after any sequence of
\* hamburger clicks, overlay clicks, sidebar link clicks and Escape keys the
\* five markers of the sidebar are all on or all off.
C18_MarkersAgree == MarkersAgree

\* The sidebar has been opened, closed and opened again by its controls.
C18_Witness ==
  /\ Len(toggleLog) = 2 /\ toggleLog[1].before /\ ~toggleLog[2].before
  /\ MarkersAre(TRUE)

IntersectingIn(entries) == {i \in 1..Len(entries) : entries[i].isIntersecting}
LastIntersecting(entries) ==
  entries[CHOOSE i \in IntersectingIn(entries) : \A j \in IntersectingIn(entries) : j <= i]

\* C12: after the scroll-spy has processed an intersecting entry for a
\* section, the links carrying the active marker are exactly the links whose
\* href is "#" followed by that section's id; every other link is unmarked.
C12_ActiveIsIntersectingSection ==
  IntersectingIn(spyBatch) # {} =>
    \A i \in 1..Len(navLinks) :
       i \in navActive <=> navLinks[i] = "#" \o LastIntersecting(spyBatch).target

\* sections s1, s2, s3 observed, only s2 crosses the threshold
C12_Witness ==
  /\ navLinks = NavHrefs
  /\ spyBatch = << [target |-> "s1", isIntersecting |-> FALSE],
                   [target |-> "s2", isIntersecting |-> TRUE],
                   [target |-> "s3", isIntersecting |-> FALSE] >>
  /\ navActive = {2}

SharingOneHref == {Cardinality({j \in 1..Len(navLinks) : navLinks[j] = navLinks[i]})
                     : i \in 1..Len(navLinks)}

\* C20: a batch without an intersecting entry leaves every link's active
\* marker as it was, and the number of active links is never more than the
\* number of links that share one href.
C20_NonIntersectingKeepsActive ==
  /\ [][IntersectingIn(spyBatch') = {} => navActive' = navActive]_vars
  /\ [](\E n \in SharingOneHref : Cardinality(navActive) <= n)

\* s2 qualified, then it dropped below the threshold: its two links stay active
C20_Witness ==
  /\ Len(navLinks) = 4
  /\ spyBatch = << [target |-> "s2", isIntersecting |-> FALSE] >>
  /\ navActive = {2, 3}

\* C13: with IntersectionObserver supported a deferred image has no source
\* until its first intersecting observation; then the source is the deferred
\* value, data-src is gone and the image is no longer observed; the source
\* is assigned exactly once, never reassigned or cleared.
C13_SourceAssignedOnce ==
  (hasIntersectionObserver /\ loaded = "done") =>
    \A img \in lazyImages :
       /\ srcWrites[img] \in {<<>>, <<"data-src">>}
       /\ srcWrites[img] = <<>> => (img \notin imgSrc /\ img \in imgDataSrc
                                    /\ img \in observedImages)
       /\ srcWrites[img] # <<>> => (img \in imgSrc /\ img \notin imgDataSrc
                                    /\ img \notin observedImages)

FragmentResolves(href) == Fragment(href) \in ElementIds
Did(call) == \E i \in 1..Len(clickLog.did) : clickLog.did[i] = call
ScrollBeforeHistory ==
  \A i, j \in 1..Len(clickLog.did) :
     (clickLog.did[i] = "scrollIntoView" /\ clickLog.did[j] = "pushState") => i < j

\* C14: a click on the anchor "#" scrolls nothing, updates no history and
\* suppresses no default navigation; a click on any other in-page anchor
\* does all three when the fragment resolves to an element and none of them
\* when it does not; the scroll comes before the history update.
C14_AnchorClick ==
  clickLog.href # "none" =>
    /\ clickLog.href = "#" => clickLog.did = <<>>
    /\ (clickLog.href # "#" /\ FragmentResolves(clickLog.href))
         => (Did("preventDefault") /\ Did("scrollIntoView") /\ Did("pushState"))
    /\ (clickLog.href # "#" /\ ~FragmentResolves(clickLog.href)) => clickLog.did = <<>>
    /\ ScrollBeforeHistory

\* C15: a debounced function never has more than one timer pending, after
\* any sequence of wrapper calls and timer firings; a wrapper call cancels
\* the timer pending before it and leaves only the timer it schedules.
C15_AtMostOnePendingTimer ==
  /\ [](Cardinality(timers) <= 1 /\ \A t \in timers : t.id = timeout)
  /\ [][Len(callLog') > Len(callLog) =>
          /\ timers \cap timers' = {}
          /\ \E t \in timers' : timers' = {t} /\ t.id = timeout' /\ t.due = now + wait]_vars

\* a call cancelled the first call's timer, the second timer fired, a third call followed
C15_Witness ==
  /\ Len(callLog) = 3 /\ Len(fired) = 1
  /\ callLog[2][1] - callLog[1][1] < wait
  /\ fired[1][1] <= callLog[3][1]
  /\ Cardinality(timers) = 1

CurrentPhrase == phrases[phraseIndex + 1]
Prefix(str, n) == SubSeq(str, 1, n)

\* C16 as stated: after the first tick of the typing animator the displayed
\* text is the prefix of length charIndex of the current phrase, whatever
\* the reduced-motion preference.
C16_TextIsPrefix ==
  timerRuns > 0 => textContent = Prefix(CurrentPhrase, charIndex)

\* C16 amended: after the first tick, with reduced motion off the displayed
\* text is the prefix of length charIndex of the current phrase; with reduced
\* motion on it is the whole first phrase while charIndex is 1.
C16_TextIsPrefixUnlessReduced ==
  timerRuns > 0 =>
    IF prefersReducedMotion
      THEN textContent = phrases[1] /\ charIndex = 1 /\ phraseIndex = 0
      ELSE textContent = Prefix(CurrentPhrase, charIndex)

\* reduced motion: the tick has run, the text is longer than charIndex
C16_Witness ==
  /\ prefersReducedMotion /\ timerRuns = 1 /\ phrases = ProgramPhrases
  /\ textContent = "developer." /\ charIndex = 1

\* C17: with reduced motion off every typing tick moves charIndex by one (up
\* while growing, down while deleting) inside 0..length of the current
\* phrase; isDeleting becomes true exactly on the tick that reaches the full
\* length, which is followed by the 2000 ms pause; it becomes false exactly on
\* the tick that reaches zero, the only tick that advances phraseIndex, to
\* (phraseIndex + 1) modulo the phrase count; every other tick is followed by
\* 100 ms when it added a character and 50 ms when it removed one.
C17_TickByTick ==
  [][(~prefersReducedMotion /\ loaded # "pending") =>
       LET full == ~isDeleting /\ charIndex' = Len(CurrentPhrase)
           zero == isDeleting /\ charIndex' = 0
       IN /\ charIndex' = IF isDeleting THEN charIndex - 1 ELSE charIndex + 1
          /\ charIndex' \in 0..Len(CurrentPhrase)
          /\ (~isDeleting /\ isDeleting') <=> full
          /\ full => typingTimer' = delayBetweenPhrases
          /\ (isDeleting /\ ~isDeleting') <=> zero
          /\ phraseIndex' = IF zero THEN (phraseIndex + 1) % Len(phrases) ELSE phraseIndex
          /\ ~full => typingTimer' = IF isDeleting THEN deleteSpeed ELSE typeSpeed]_vars

\* the second phrase has just been typed in full: the long pause is pending
C17_Witness ==
  /\ ~prefersReducedMotion /\ phraseIndex = 1
  /\ isDeleting /\ charIndex = Len(CurrentPhrase)
  /\ typingTimer = delayBetweenPhrases

PhraseSlots == 1..Len(ProgramPhrases)
NextSlot(i) == (i % Len(phrases)) + 1
ShownInFull(i) ==
  /\ i <= Len(phrases) /\ phraseIndex = i - 1
  /\ isDeleting /\ charIndex = Len(phrases[i]) /\ textContent = phrases[i]
Erased(i) == i <= Len(phrases) /\ phraseIndex = NextSlot(i) - 1 /\ charIndex = 0 /\ textContent = ""

\* C19: with reduced motion off and the typing element present the typing
\* animation never stops: once the page is loaded a typing timer is always
\* pending between ticks, every phrase is displayed in full infinitely often
\* and erased to the empty string afterwards, and the phrase displayed in full
\* after phrase i is phrase (i + 1) modulo the phrase count.
Animated == ~prefersReducedMotion /\ typewriterElement

C19_TypingNeverStops ==
  /\ []((Animated /\ loaded # "pending") => typingTimer # 0)
  /\ \A i \in PhraseSlots :
       /\ []<>((Animated /\ i <= Len(phrases)) => ShownInFull(i))
       /\ (Animated /\ ShownInFull(i)) ~> Erased(i)
       /\ (Animated /\ Erased(i)) ~> ShownInFull(NextSlot(i))
  /\ [][Animated => phraseIndex' \in {phraseIndex, (phraseIndex + 1) % Len(phrases)}]_vars

====
